---- MODULE Spec2Model ----
(***************************************************************************)
(* A model of git_stage.py: the hunk transformation engine that turns a    *)
(* unified diff into an editable updates file and replays the edited file  *)
(* against the indexed content.  Text is a sequence of one-character       *)
(* strings, a line is a text that ends in a line break (or lacks one when  *)
(* it is the last line), and ChangeGroup / UpdateHunk are records with the *)
(* fields old_line, old_lines, new_lines.                                  *)
(***************************************************************************)
EXTENDS Integers, Sequences, FiniteSets, TLC

VARIABLES
    pc,            \* position of the running command or function
    file_path,     \* the file path argument / the path parsed from the document
    groups,        \* ChangeGroups handed to format_updates_file
    content,       \* text of the updates file
    parsed,        \* what parse_updates_file returned: <<file_path, hunks>>
    hunks,         \* UpdateHunks of the run, in document order
    sorted_hunks,  \* sort_hunks(hunks)
    verdict,       \* what a direct call of validate_hunks raised, or NoError
    lines,         \* the base line sequence handed to apply_hunks
    result,        \* apply_hunks: the list being rewritten
    offset,        \* apply_hunks: cumulative line offset
    k,             \* apply_hunks: number of records processed so far
    error,         \* the exception in flight or caught, NoError when none
    index,         \* the indexed content of the file, or Missing
    diff_text,     \* output of git diff for the file
    diff_hunks,    \* Hunks that parse_unified_diff returned
    target,        \* the working-tree line sequence the diff leads to
    updates_exists,\* whether the updates file exists on disk
    stderr,        \* diagnostics written to standard error, in order
    exit_code,     \* process exit status, -1 while running
    sink_calls,    \* patches handed to git apply --cached, in order
    events         \* steps of cmd_apply in the order they completed

vars == <<pc, file_path, groups, content, parsed, hunks, sorted_hunks, verdict,
          lines, result, offset, k, error, index, diff_text, diff_hunks, target,
          updates_exists, stderr, exit_code, sink_calls, events>>

----------------------------------------------------------------------------
(* Bounds of the model.                                                    *)

\* Longest base file, in lines.
MaxBase == 3
\* Most records of a document that is replayed.
MaxHunks == 2
\* Most records handed to validate_hunks directly.
MaxRecords == 3
\* Most ChangeGroups handed to format_updates_file directly.
MaxGroups == 2
\* Most lines of a diff hunk.
MaxScript == 4

----------------------------------------------------------------------------
(* Text: characters, literals, and the str methods the code uses.          *)

LF == "\n"
CR == "\r"
SP == " "

Digits == <<"0", "1", "2", "3", "4", "5", "6", "7", "8", "9">>

\* The characters str.strip() and the regex class \s remove or match.
Whitespace == {SP, "\t", LF, CR}

\* The line boundaries of str.splitlines() that the alphabet holds.
LineBreaks == {LF, CR}

Min(a, b) == IF a < b THEN a ELSE b
Max(a, b) == IF a > b THEN a ELSE b

\* "".join(parts)
RECURSIVE Join(_)
Join(parts) ==
    IF parts = <<>> THEN <<>> ELSE Head(parts) \o Join(Tail(parts))

\* s.startswith(p)
StartsWith(s, p) == Len(s) >= Len(p) /\ SubSeq(s, 1, Len(p)) = p

\* s.rstrip("\n")
RECURSIVE RStripNL(_)
RStripNL(s) ==
    IF s # <<>> /\ s[Len(s)] = LF THEN RStripNL(SubSeq(s, 1, Len(s) - 1)) ELSE s

RECURSIVE LStrip(_)
LStrip(s) ==
    IF s # <<>> /\ s[1] \in Whitespace THEN LStrip(Tail(s)) ELSE s

RECURSIVE RStrip(_)
RStrip(s) ==
    IF s # <<>> /\ s[Len(s)] \in Whitespace
    THEN RStrip(SubSeq(s, 1, Len(s) - 1)) ELSE s

\* s.strip()
Strip(s) == RStrip(LStrip(s))

\* s.splitlines(keepends=True) from position start on: a line ends at the
\* first boundary at or after start, "\r\n" is one boundary, and a last line
\* without boundary is kept.
RECURSIVE SplitLinesFrom(_, _)
SplitLinesFrom(s, start) ==
    IF start > Len(s) THEN <<>>
    ELSE LET breaks == {i \in start..Len(s) : s[i] \in LineBreaks}
         IN  IF breaks = {} THEN <<SubSeq(s, start, Len(s))>>
             ELSE LET i == CHOOSE b \in breaks : \A c \in breaks : b <= c
                      e == IF s[i] = CR /\ i < Len(s) /\ s[i + 1] = LF
                           THEN i + 1 ELSE i
                  IN  <<SubSeq(s, start, e)>> \o SplitLinesFrom(s, e + 1)

SplitLines(s) == SplitLinesFrom(s, 1)

IsDigit(c) == \E d \in 1..10 : Digits[d] = c

DigitValue(c) == (CHOOSE d \in 1..10 : Digits[d] = c) - 1

\* int(s) for a string of decimal digits
RECURSIVE StrToInt(_)
StrToInt(s) ==
    IF s = <<>> THEN 0
    ELSE 10 * StrToInt(SubSeq(s, 1, Len(s) - 1)) + DigitValue(s[Len(s)])

\* str(n) for n >= 0, as the f-string renders an int
RECURSIVE IntToStr(_)
IntToStr(n) ==
    IF n < 10 THEN <<Digits[n + 1]>>
    ELSE IntToStr(n \div 10) \o <<Digits[(n % 10) + 1]>>

\* The longest run of digits of s that starts at position i (regex \d+ or \d*).
RECURSIVE DigitRun(_, _)
DigitRun(s, i) ==
    IF i <= Len(s) /\ IsDigit(s[i]) THEN <<s[i]>> \o DigitRun(s, i + 1) ELSE <<>>

\* The number of whitespace characters of s from position i on (regex \s*).
RECURSIVE SpaceRun(_, _)
SpaceRun(s, i) ==
    IF i <= Len(s) /\ s[i] \in Whitespace THEN 1 + SpaceRun(s, i + 1) ELSE 0

----------------------------------------------------------------------------
(* The updates file format.                                                *)

FILE_COLON == <<"f", "i", "l", "e", ":">>
AT_OLD == <<"@", "@", "o", "l", "d">>
AT_NEW == <<"@", "@", "n", "e", "w">>
AT_END == <<"@", "@", "e", "n", "d">>

\* file_pattern ^file:\s*(.+)$ matches the line (its trailing "\n" stripped)
FilePatternMatches(line) ==
    /\ StartsWith(line, FILE_COLON)
    /\ Len(line) > Len(FILE_COLON)
    /\ \A i \in 1..Len(line) : line[i] # LF

\* group(1) of file_pattern: \s* is greedy but gives back one character when
\* nothing else is left for (.+)
FilePatternGroup(line) ==
    LET ws == SpaceRun(line, Len(FILE_COLON) + 1)
        from == IF Len(FILE_COLON) + ws >= Len(line)
                THEN Len(line) ELSE Len(FILE_COLON) + ws + 1
    IN  SubSeq(line, from, Len(line))

\* old_pattern ^@@old\s+(\d+)$ matches the line (its trailing "\n" stripped)
OldPatternMatches(line) ==
    /\ StartsWith(line, AT_OLD)
    /\ LET ws == SpaceRun(line, Len(AT_OLD) + 1)
           ds == DigitRun(line, Len(AT_OLD) + ws + 1)
       IN  /\ ws >= 1
           /\ Len(ds) >= 1
           /\ Len(AT_OLD) + ws + Len(ds) = Len(line)

\* int(group(1)) of old_pattern
OldPatternLine(line) ==
    StrToInt(DigitRun(line, Len(AT_OLD) + SpaceRun(line, Len(AT_OLD) + 1) + 1))

\* The header loop of parse_updates_file: the first line from i on that
\* matches file_pattern gives the path; without one the path stays "" and
\* every line is consumed.
RECURSIVE ParseFileHeader(_, _)
ParseFileHeader(ls, i) ==
    IF i > Len(ls) THEN [file_path |-> <<>>, next |-> i]
    ELSE IF FilePatternMatches(RStripNL(ls[i]))
    THEN [file_path |-> Strip(FilePatternGroup(RStripNL(ls[i]))), next |-> i + 1]
    ELSE ParseFileHeader(ls, i + 1)

\* The two collection loops of parse_updates_file: the lines from i up to the
\* first line equal to marker (which is consumed), or up to the end.
RECURSIVE CollectUntil(_, _, _)
CollectUntil(ls, i, marker) ==
    IF i > Len(ls) THEN [got |-> <<>>, next |-> i]
    ELSE IF RStripNL(ls[i]) = marker THEN [got |-> <<>>, next |-> i + 1]
    ELSE LET r == CollectUntil(ls, i + 1, marker)
         IN  [got |-> <<ls[i]>> \o r.got, next |-> r.next]

\* The hunk loop of parse_updates_file from line i on.
RECURSIVE ParseUpdateHunks(_, _)
ParseUpdateHunks(ls, i) ==
    IF i > Len(ls) THEN <<>>
    ELSE IF OldPatternMatches(RStripNL(ls[i]))
    THEN LET o == CollectUntil(ls, i + 1, AT_NEW)
             n == CollectUntil(ls, o.next, AT_END)
         IN  <<[old_line |-> OldPatternLine(RStripNL(ls[i])),
                old_lines |-> o.got,
                new_lines |-> n.got]>> \o ParseUpdateHunks(ls, n.next)
    ELSE ParseUpdateHunks(ls, i + 1)

parse_updates_file(text) ==
    LET ls == SplitLines(text)
        h == ParseFileHeader(ls, 1)
    IN  <<h.file_path, ParseUpdateHunks(ls, h.next)>>

\* The parts of a group without the blank line in front of "@@old".
FormatGroupPartsNoBlank(g) ==
    <<AT_OLD \o <<SP>> \o IntToStr(g.old_line) \o <<LF>>>>
    \o g.old_lines
    \o <<AT_NEW \o <<LF>>>>
    \o g.new_lines
    \o <<AT_END \o <<LF>>>>

\* The parts one group adds in the loop of format_updates_file.
FormatGroupParts(g) ==
    <<<<LF>> \o AT_OLD \o <<SP>> \o IntToStr(g.old_line) \o <<LF>>>>
    \o g.old_lines
    \o <<AT_NEW \o <<LF>>>>
    \o g.new_lines
    \o <<AT_END \o <<LF>>>>

RECURSIVE FormatParts(_)
FormatParts(gs) ==
    IF gs = <<>> THEN <<>> ELSE FormatGroupParts(Head(gs)) \o FormatParts(Tail(gs))

format_updates_file(path, gs) ==
    Join(<<FILE_COLON \o <<SP>> \o path \o <<LF>>>> \o FormatParts(gs))

----------------------------------------------------------------------------
(* parse_unified_diff and split_into_change_groups.                        *)

DIFF_GIT == <<"d", "i", "f", "f", " ", "-", "-", "g", "i", "t">>
INDEX_SP == <<"i", "n", "d", "e", "x", " ">>
MINUS3_SP == <<"-", "-", "-", " ">>
PLUS3_SP == <<"+", "+", "+", " ">>

\* s.startswith(ps) for a tuple of prefixes
StartsWithAny(s, ps) == \E q \in ps : StartsWith(s, q)

\* p stands in s at position i
StartsWithAt(s, i, p) ==
    i + Len(p) - 1 <= Len(s) /\ SubSeq(s, i, i + Len(p) - 1) = p

\* (\d+)(?:,(\d+))? of hunk_pattern at position i of s: the digits of both
\* groups (the second empty when the group takes no part) and the position
\* after the match.
NumberPair(s, i) ==
    LET d1 == DigitRun(s, i)
        j == i + Len(d1)
        d2 == IF StartsWithAt(s, j, <<",">>) THEN DigitRun(s, j + 1) ELSE <<>>
    IN  [ok |-> Len(d1) >= 1,
         first |-> d1,
         second |-> d2,
         next |-> IF d2 # <<>> THEN j + 1 + Len(d2) ELSE j]

\* The match that takes an absent count for 0.
HunkPatternAbsentIsZero(line) ==
    LET a == NumberPair(line, 5)
        b == NumberPair(line, a.next + 2)
    IN  [ok |-> /\ StartsWith(line, <<"@", "@", SP, "-">>)
                /\ a.ok
                /\ StartsWithAt(line, a.next, <<SP, "+">>)
                /\ b.ok
                /\ StartsWithAt(line, b.next, <<SP, "@", "@">>),
         old_start |-> StrToInt(a.first),
         old_count |-> StrToInt(a.second),
         new_start |-> StrToInt(b.first),
         new_count |-> StrToInt(b.second)]

\* hunk_pattern.match(line) with the four numbers of lines 121-124: an absent
\* count is 1.
HunkPattern(line) ==
    LET a == NumberPair(line, 5)
        b == NumberPair(line, a.next + 2)
    IN  [ok |-> /\ StartsWith(line, <<"@", "@", SP, "-">>)
                /\ a.ok
                /\ StartsWithAt(line, a.next, <<SP, "+">>)
                /\ b.ok
                /\ StartsWithAt(line, b.next, <<SP, "@", "@">>),
         old_start |-> StrToInt(a.first),
         old_count |-> IF a.second # <<>> THEN StrToInt(a.second) ELSE 1,
         new_start |-> StrToInt(b.first),
         new_count |-> IF b.second # <<>> THEN StrToInt(b.second) ELSE 1]

\* The inner loop of parse_unified_diff from line i on: the diff lines of
\* the hunk and the line the loop stops at.
RECURSIVE CollectHunkLines(_, _)
CollectHunkLines(ls, i) ==
    IF i > Len(ls) THEN [got |-> <<>>, next |-> i]
    ELSE IF HunkPattern(ls[i]).ok THEN [got |-> <<>>, next |-> i]
    ELSE IF StartsWithAny(ls[i], {DIFF_GIT, MINUS3_SP, PLUS3_SP})
    THEN [got |-> <<>>, next |-> i]
    ELSE LET r == CollectHunkLines(ls, i + 1)
             keep == StartsWithAny(ls[i], {<<SP>>, <<"-">>, <<"+">>, <<"\\">>})
         IN  [got |-> (IF keep THEN <<ls[i]>> ELSE <<>>) \o r.got, next |-> r.next]

\* The outer loop of parse_unified_diff from line i on.
RECURSIVE ParseDiffFrom(_, _)
ParseDiffFrom(ls, i) ==
    IF i > Len(ls) THEN <<>>
    ELSE IF StartsWithAny(ls[i], {DIFF_GIT, INDEX_SP, MINUS3_SP, PLUS3_SP})
    THEN ParseDiffFrom(ls, i + 1)
    ELSE IF HunkPattern(ls[i]).ok
    THEN LET h == HunkPattern(ls[i])
             r == CollectHunkLines(ls, i + 1)
         IN  <<[old_start |-> h.old_start, old_count |-> h.old_count,
                new_start |-> h.new_start, new_count |-> h.new_count,
                lines |-> r.got]>> \o ParseDiffFrom(ls, r.next)
    ELSE ParseDiffFrom(ls, i + 1)

parse_unified_diff(text) == ParseDiffFrom(SplitLines(text), 1)

\* The state of the loop of split_into_change_groups has an open group.
GroupOpen(st) == st.old_lines # <<>> \/ st.new_lines # <<>>

\* groups.append(ChangeGroup(...)) with the buffers of st
WithGroupClosed(st) ==
    Append(st.groups, [old_line |-> st.old_line,
                       old_lines |-> st.old_lines,
                       new_lines |-> st.new_lines])

\* The iteration that takes every line that is neither removed nor added
\* for a context line, the marker line included.
SplitStepMarkerCloses(st, line) ==
    IF StartsWith(line, <<"-">>)
    THEN [st EXCEPT !.old_line = IF GroupOpen(st) THEN @ ELSE st.current_old_line,
                    !.old_lines = Append(@, Tail(line)),
                    !.current_old_line = @ + 1]
    ELSE IF StartsWith(line, <<"+">>)
    THEN [st EXCEPT !.new_lines = Append(@, Tail(line))]
    ELSE IF StartsWith(line, <<SP>>)
    THEN IF GroupOpen(st)
         THEN [groups |-> WithGroupClosed(st), old_lines |-> <<>>,
               new_lines |-> <<>>, old_line |-> 0,
               current_old_line |-> st.current_old_line + 1]
         ELSE [st EXCEPT !.current_old_line = @ + 1]
    ELSE IF GroupOpen(st)
    THEN [groups |-> WithGroupClosed(st), old_lines |-> <<>>,
          new_lines |-> <<>>, old_line |-> 0,
          current_old_line |-> st.current_old_line]
    ELSE st

\* The iteration that advances the old-file cursor on the marker line.
SplitStepMarkerAdvances(st, line) ==
    IF StartsWith(line, <<SP>>)
    THEN IF GroupOpen(st)
         THEN [groups |-> WithGroupClosed(st), old_lines |-> <<>>,
               new_lines |-> <<>>, old_line |-> 0,
               current_old_line |-> st.current_old_line + 1]
         ELSE [st EXCEPT !.current_old_line = @ + 1]
    ELSE IF StartsWith(line, <<"-">>)
    THEN [st EXCEPT !.old_line = IF GroupOpen(st) THEN @ ELSE st.current_old_line,
                    !.old_lines = Append(@, Tail(line)),
                    !.current_old_line = @ + 1]
    ELSE IF StartsWith(line, <<"+">>)
    THEN [st EXCEPT !.new_lines = Append(@, Tail(line))]
    ELSE [st EXCEPT !.current_old_line = @ + 1]

\* One iteration of the loop of split_into_change_groups.
SplitStep(st, line) ==
    IF StartsWith(line, <<SP>>)
    THEN IF GroupOpen(st)
         THEN [groups |-> WithGroupClosed(st), old_lines |-> <<>>,
               new_lines |-> <<>>, old_line |-> 0,
               current_old_line |-> st.current_old_line + 1]
         ELSE [st EXCEPT !.current_old_line = @ + 1]
    ELSE IF StartsWith(line, <<"-">>)
    THEN [st EXCEPT !.old_line = IF GroupOpen(st) THEN @ ELSE st.current_old_line,
                    !.old_lines = Append(@, Tail(line)),
                    !.current_old_line = @ + 1]
    ELSE IF StartsWith(line, <<"+">>)
    THEN [st EXCEPT !.new_lines = Append(@, Tail(line))]
    ELSE st

RECURSIVE SplitLoop(_, _, _)
SplitLoop(st, ls, i) ==
    IF i > Len(ls) THEN st ELSE SplitLoop(SplitStep(st, ls[i]), ls, i + 1)

split_into_change_groups(hunk) ==
    LET st == SplitLoop([groups |-> <<>>, old_lines |-> <<>>, new_lines |-> <<>>,
                         old_line |-> 0, current_old_line |-> hunk.old_start],
                        hunk.lines, 1)
    IN  IF GroupOpen(st) THEN WithGroupClosed(st) ELSE st.groups

\* The loop of cmd_updates that collects the groups of every hunk.
RECURSIVE AllGroups(_)
AllGroups(hs) ==
    IF hs = <<>> THEN <<>>
    ELSE split_into_change_groups(Head(hs)) \o AllGroups(Tail(hs))

----------------------------------------------------------------------------
(* Python list slicing, as apply_hunks uses it.                            *)

\* A slice bound i of a list of length n: a negative bound counts from the
\* end, and every bound is clamped into 0..n.
PyBound(n, i) == IF i < 0 THEN Max(n + i, 0) ELSE Min(i, n)

\* s[a:b]
PySlice(s, a, b) ==
    LET lo == PyBound(Len(s), a)
        hi == PyBound(Len(s), b)
    IN  IF lo < hi THEN SubSeq(s, lo + 1, hi) ELSE <<>>

\* s[a:b] = v
PySliceAssign(s, a, b, v) ==
    LET lo == PyBound(Len(s), a)
        hi == Max(lo, PyBound(Len(s), b))
    IN  SubSeq(s, 1, lo) \o v \o SubSeq(s, hi + 1, Len(s))

----------------------------------------------------------------------------
(* validate_hunks, sort_hunks, apply_hunks.                                *)

NoError == [kind |-> "none"]

RangeStart(h) == h.old_line

RangeEnd(h) ==
    IF h.old_lines # <<>> THEN h.old_line + Len(h.old_lines) - 1
    ELSE h.old_line - 1

\* The overlap test with both comparisons strict (an off-by-one slip).
RangesOverlapStrict(a, b) ==
    RangeStart(a) < RangeEnd(b) /\ RangeStart(b) < RangeEnd(a)

\* The overlap test that only asks whether a starts inside b.
RangesOverlapOneSided(a, b) ==
    RangeStart(b) <= RangeStart(a) /\ RangeStart(a) <= RangeEnd(b)

\* The overlap test of validate_hunks on one pair.
RangesOverlap(a, b) ==
    RangeStart(a) <= RangeEnd(b) /\ RangeStart(b) <= RangeEnd(a)

\* The nested loop of validate_hunks, at the pair (i, j): the ValueError of
\* the first overlapping pair in loop order, or NoError.
RECURSIVE ValidateFrom(_, _, _)
ValidateFrom(hs, i, j) ==
    IF i > Len(hs) THEN NoError
    ELSE IF j > Len(hs) THEN ValidateFrom(hs, i + 1, i + 2)
    ELSE IF RangesOverlap(hs[i], hs[j])
    THEN [kind |-> "overlap", a |-> hs[i].old_line, b |-> hs[j].old_line]
    ELSE ValidateFrom(hs, i, j + 1)

validate_hunks(hs) == ValidateFrom(hs, 1, 2)

\* The insertion that puts h in front of the records with an equal key.
InsertByOldLineBeforeEqual(srt, h) ==
    LET before == SelectSeq(srt, LAMBDA r : r.old_line < h.old_line)
        after == SelectSeq(srt, LAMBDA r : r.old_line >= h.old_line)
    IN  before \o <<h>> \o after

\* sorted() is stable: h goes behind every record whose key is <= its own.
RECURSIVE InsertByOldLine(_, _)
InsertByOldLine(srt, h) ==
    IF srt = <<>> THEN <<h>>
    ELSE IF Head(srt).old_line <= h.old_line
    THEN <<Head(srt)>> \o InsertByOldLine(Tail(srt), h)
    ELSE <<h>> \o srt

RECURSIVE sort_hunks(_)
sort_hunks(hs) ==
    IF hs = <<>> THEN <<>>
    ELSE InsertByOldLine(sort_hunks(SubSeq(hs, 1, Len(hs) - 1)), hs[Len(hs)])

\* The iteration with the offset of a pure insertion left as it was.
ApplyOneStaleOffset(res, off, hunk) ==
    LET start_idx == hunk.old_line + off - 1
        n == Len(hunk.old_lines)
        actual_lines == PySlice(res, start_idx, start_idx + n)
    IN  IF hunk.old_lines # <<>>
        THEN IF actual_lines # hunk.old_lines
             THEN [result |-> res, offset |-> off,
                   error |-> [kind |-> "old lines not found",
                              at |-> start_idx + 1,
                              expected |-> hunk.old_lines,
                              found |-> actual_lines]]
             ELSE [result |-> PySliceAssign(res, start_idx, start_idx + n,
                                            hunk.new_lines),
                   offset |-> off + Len(hunk.new_lines) - n,
                   error |-> NoError]
        ELSE [result |-> PySliceAssign(res, start_idx, start_idx, hunk.new_lines),
              offset |-> off,
              error |-> NoError]

\* The iteration that takes a slice cut short by the end of the list for a
\* match when it is a prefix of old_lines.
ApplyOnePrefixMatch(res, off, hunk) ==
    LET start_idx == hunk.old_line + off - 1
        n == Len(hunk.old_lines)
        actual_lines == PySlice(res, start_idx, start_idx + n)
    IN  IF hunk.old_lines # <<>>
        THEN IF actual_lines # SubSeq(hunk.old_lines, 1, Len(actual_lines))
             THEN [result |-> res, offset |-> off,
                   error |-> [kind |-> "old lines not found",
                              at |-> start_idx + 1,
                              expected |-> hunk.old_lines,
                              found |-> actual_lines]]
             ELSE [result |-> PySliceAssign(res, start_idx, start_idx + n,
                                            hunk.new_lines),
                   offset |-> off + Len(hunk.new_lines) - n,
                   error |-> NoError]
        ELSE [result |-> PySliceAssign(res, start_idx, start_idx, hunk.new_lines),
              offset |-> off + Len(hunk.new_lines),
              error |-> NoError]

\* One iteration of the loop of apply_hunks on the list res with the
\* cumulative offset off: the new list and offset, and the error if it raises.
ApplyOne(res, off, hunk) ==
    LET adjusted_line == hunk.old_line + off
        start_idx == adjusted_line - 1
        actual_lines == PySlice(res, start_idx, start_idx + Len(hunk.old_lines))
    IN  IF hunk.old_lines # <<>>
        THEN IF actual_lines # hunk.old_lines
             THEN [result |-> res, offset |-> off,
                   error |-> [kind |-> "old lines not found",
                              at |-> adjusted_line,
                              expected |-> hunk.old_lines,
                              found |-> actual_lines]]
             ELSE [result |-> PySliceAssign(res, start_idx,
                                  start_idx + Len(hunk.old_lines), hunk.new_lines),
                   offset |-> off + Len(hunk.new_lines) - Len(hunk.old_lines),
                   error |-> NoError]
        ELSE [result |-> PySliceAssign(res, start_idx, start_idx, hunk.new_lines),
              offset |-> off + Len(hunk.new_lines),
              error |-> NoError]

\* apply_hunks as a whole: the loop from record i on.
RECURSIVE ApplyFrom(_, _, _, _)
ApplyFrom(res, off, hs, i) ==
    IF i > Len(hs) THEN [result |-> res, offset |-> off, error |-> NoError]
    ELSE LET one == ApplyOne(res, off, hs[i])
         IN  IF one.error # NoError THEN one
             ELSE ApplyFrom(one.result, one.offset, hs, i + 1)

apply_hunks(ls, hs) == ApplyFrom(ls, 0, hs, 1)

----------------------------------------------------------------------------
(* Inputs.                                                                 *)

La == <<"a", LF>>
Lb == <<"b", LF>>
Lx == <<"x", LF>>
Ly == <<"y", LF>>

PathF == <<"f">>

Missing == <<"(", "m", "i", "s", "s", "i", "n", "g", ")">>

SeqsUpTo(S, n) == UNION {[1..m -> S] : m \in 0..n}

\* Base files: a, b, a, b, ... cut at every length up to MaxBase, so that
\* neighbouring lines differ.
BaseOfLength(n) == [i \in 1..n |-> IF i % 2 = 1 THEN La ELSE Lb]

Bases == {BaseOfLength(n) : n \in 0..MaxBase}

\* Expected old content and replacement content a record may hold.
OldChoices == {<<>>, <<La>>, <<Lb>>, <<La, Lb>>}
NewChoices == {<<>>, <<Lx>>}

\* UpdateHunks as a document can hold them: any line hint from 0 to one
\* past the end of the longest base.
Records ==
    [old_line : 0..(MaxBase + 1), old_lines : OldChoices, new_lines : NewChoices]

HunkSeqs == SeqsUpTo(Records, MaxHunks)

----------------------------------------------------------------------------
(* cmd_apply, step by step.  An exception in flight is pc = "raised" with  *)
(* the exception in error.                                                 *)

\* The first step without the early return for a document without hunks.
CmdReadNoEarlyReturn ==
    /\ pc = "cmd_apply"
    /\ LET p == parse_updates_file(content)
       IN  /\ file_path' = p[1]
           /\ hunks' = p[2]
    /\ pc' = "sort"
    /\ events' = Append(events, "parsed")
    /\ UNCHANGED <<groups, content, parsed, sorted_hunks, verdict, lines, result,
                   offset, k, error, index, diff_text, diff_hunks, target,
                   updates_exists, exit_code, stderr, sink_calls>>

\* cmd_apply lines 538-546: read and parse the updates file; without hunks
\* delete the file and return.
CmdRead ==
    /\ pc = "cmd_apply"
    /\ LET p == parse_updates_file(content)
       IN  /\ file_path' = p[1]
           /\ hunks' = p[2]
           /\ IF p[2] = <<>>
              THEN /\ updates_exists' = FALSE
                   /\ exit_code' = 0
                   /\ pc' = "exited"
              ELSE /\ pc' = "sort"
                   /\ UNCHANGED <<updates_exists, exit_code>>
    /\ events' = Append(events, "parsed")
    /\ UNCHANGED <<groups, content, parsed, sorted_hunks, verdict, lines, result,
                   offset, k, error, index, diff_text, diff_hunks, target, stderr, sink_calls>>

\* cmd_apply line 549
Sort ==
    /\ pc = "sort"
    /\ sorted_hunks' = sort_hunks(hunks)
    /\ pc' = "validate"
    /\ UNCHANGED <<file_path, groups, content, parsed, hunks, verdict, lines,
                   result, offset, k, error, index, diff_text, diff_hunks, target,
                   updates_exists, stderr, exit_code, sink_calls, events>>

\* The validation step whose handler prints the conflict and goes on.
ValidateGoesOn ==
    /\ pc = "validate"
    /\ LET e == validate_hunks(sorted_hunks)
       IN  IF e = NoError
           THEN events' = Append(events, "validated") /\ stderr' = stderr
           ELSE events' = events /\ stderr' = Append(stderr, e)
    /\ pc' = "show_index"
    /\ UNCHANGED <<file_path, groups, content, parsed, hunks, sorted_hunks,
                   verdict, lines, result, offset, k, error, index, diff_text, diff_hunks,
                   target, updates_exists, exit_code, sink_calls>>

\* cmd_apply line 551: validate_hunks returns or raises
Validate ==
    /\ pc = "validate"
    /\ error' = validate_hunks(sorted_hunks)
    /\ IF error' = NoError
       THEN pc' = "show_index" /\ events' = Append(events, "validated")
       ELSE pc' = "raised" /\ events' = events
    /\ UNCHANGED <<file_path, groups, content, parsed, hunks, sorted_hunks,
                   verdict, lines, result, offset, k, index, diff_text, diff_hunks, target,
                   updates_exists, stderr, exit_code, sink_calls>>

\* cmd_apply lines 558-564: git show :<path> fails or gives the content,
\* which is split into lines
ShowIndex ==
    /\ pc = "show_index"
    /\ IF index = Missing
       THEN /\ error' = [kind |-> "git show failed"]
            /\ pc' = "raised"
            /\ UNCHANGED <<lines, events>>
       ELSE /\ lines' = SplitLines(index)
            /\ pc' = "apply_hunks"
            /\ events' = Append(events, "index_read")
            /\ error' = error
    /\ UNCHANGED <<file_path, groups, content, parsed, hunks, sorted_hunks,
                   verdict, result, offset, k, index, diff_text, diff_hunks, target,
                   updates_exists, stderr, exit_code, sink_calls>>

\* apply_hunks lines 368-369: copy the list, offset 0
ApplyEnter ==
    /\ pc = "apply_hunks"
    /\ result' = lines
    /\ offset' = 0
    /\ k' = 0
    /\ pc' = "apply_loop"
    /\ UNCHANGED <<file_path, groups, content, parsed, hunks, sorted_hunks,
                   verdict, lines, error, index, diff_text, diff_hunks, target,
                   updates_exists, stderr, exit_code, sink_calls, events>>

\* The iteration that works on the list it was given instead of on a copy.
ApplyHunkInPlace ==
    /\ pc = "apply_loop"
    /\ k < Len(sorted_hunks)
    /\ LET one == ApplyOne(result, offset, sorted_hunks[k + 1])
       IN  IF one.error # NoError
           THEN /\ error' = one.error
                /\ pc' = "raised"
                /\ UNCHANGED <<result, lines, offset, k>>
           ELSE /\ result' = one.result
                /\ lines' = one.result
                /\ offset' = one.offset
                /\ k' = k + 1
                /\ UNCHANGED <<error, pc>>
    /\ UNCHANGED <<file_path, groups, content, parsed, hunks, sorted_hunks,
                   verdict, index, diff_text, diff_hunks, target, updates_exists,
                   stderr, exit_code, sink_calls, events>>

\* apply_hunks lines 371-398: one iteration of the loop
ApplyHunk ==
    /\ pc = "apply_loop"
    /\ k < Len(sorted_hunks)
    /\ LET one == ApplyOne(result, offset, sorted_hunks[k + 1])
       IN  IF one.error # NoError
           THEN /\ error' = one.error
                /\ pc' = "raised"
                /\ UNCHANGED <<result, offset, k>>
           ELSE /\ result' = one.result
                /\ offset' = one.offset
                /\ k' = k + 1
                /\ UNCHANGED <<error, pc>>
    /\ UNCHANGED <<file_path, groups, content, parsed, hunks, sorted_hunks,
                   verdict, lines, index, diff_text, diff_hunks, target, updates_exists,
                   stderr, exit_code, sink_calls, events>>

\* apply_hunks line 400: return result
ApplyReturn ==
    /\ pc = "apply_loop"
    /\ k = Len(sorted_hunks)
    /\ pc' = "applied"
    /\ events' = Append(events, "replayed")
    /\ UNCHANGED <<file_path, groups, content, parsed, hunks, sorted_hunks,
                   verdict, lines, result, offset, k, error, index, diff_text, diff_hunks,
                   target, updates_exists, stderr, exit_code, sink_calls>>

\* The handler that prints the exception and goes on instead of exiting.
CmdExceptGoesOn ==
    /\ pc = "raised"
    /\ stderr' = Append(stderr, error)
    /\ pc' = "applied"
    /\ UNCHANGED <<file_path, groups, content, parsed, hunks, sorted_hunks,
                   verdict, lines, result, offset, k, error, index, diff_text, diff_hunks,
                   target, updates_exists, exit_code, sink_calls, events>>

\* cmd_apply lines 552-554, 559-561, 569-571: print the exception to
\* standard error and exit with status 1
CmdExcept ==
    /\ pc = "raised"
    /\ stderr' = Append(stderr, error)
    /\ exit_code' = 1
    /\ pc' = "exited"
    /\ UNCHANGED <<file_path, groups, content, parsed, hunks, sorted_hunks,
                   verdict, lines, result, offset, k, error, index, diff_text, diff_hunks,
                   target, updates_exists, sink_calls, events>>

\* The staging step that deletes the updates file before it looks at what
\* git apply --cached reported.
CmdStageUnlinksFirst ==
    /\ pc = "applied"
    /\ \E success \in BOOLEAN :
          /\ sink_calls' = Append(sink_calls, [old_lines |-> lines,
                                               new_lines |-> result,
                                               success |-> success])
          /\ updates_exists' = FALSE
          /\ IF success
             THEN exit_code' = 0 /\ stderr' = stderr
             ELSE /\ stderr' = Append(stderr, [kind |-> "git apply failed"])
                  /\ exit_code' = 1
    /\ events' = Append(events, "sink")
    /\ pc' = "exited"
    /\ UNCHANGED <<file_path, groups, content, parsed, hunks, sorted_hunks,
                   verdict, lines, result, offset, k, error, index, diff_text, diff_hunks,
                   target>>

\* cmd_apply lines 574-586: generate the patch from the base lines and the
\* replayed lines, pipe it to git apply --cached, which accepts or rejects
\* it; delete the updates file on success, else print and exit 1
CmdStage ==
    /\ pc = "applied"
    /\ \E success \in BOOLEAN :
          /\ sink_calls' = Append(sink_calls, [old_lines |-> lines,
                                               new_lines |-> result,
                                               success |-> success])
          /\ IF success
             THEN /\ updates_exists' = FALSE
                  /\ exit_code' = 0
                  /\ stderr' = stderr
             ELSE /\ stderr' = Append(stderr, [kind |-> "git apply failed"])
                  /\ exit_code' = 1
                  /\ updates_exists' = updates_exists
    /\ events' = Append(events, "sink")
    /\ pc' = "exited"
    /\ UNCHANGED <<file_path, groups, content, parsed, hunks, sorted_hunks,
                   verdict, lines, result, offset, k, error, index, diff_text, diff_hunks,
                   target>>

----------------------------------------------------------------------------
(* SpecApply: sort_hunks, validate_hunks and apply_hunks on the records of *)
(* a document and a base, as cmd_apply runs them.                          *)

InitApply ==
    /\ pc = "sort"
    /\ file_path = PathF
    /\ hunks \in HunkSeqs
    /\ content = format_updates_file(PathF, hunks)
    /\ index \in {Join(b) : b \in Bases}
    /\ groups = <<>>
    /\ parsed = <<>>
    /\ sorted_hunks = <<>>
    /\ verdict = NoError
    /\ lines = <<>>
    /\ result = <<>>
    /\ offset = 0
    /\ k = 0
    /\ error = NoError
    /\ diff_text = <<>>
    /\ diff_hunks = <<>>
    /\ target = <<>>
    /\ updates_exists = TRUE
    /\ stderr = <<>>
    /\ exit_code = -1
    /\ sink_calls = <<>>
    /\ events = <<"parsed">>

NextApply == Sort \/ Validate \/ ShowIndex \/ ApplyEnter \/ ApplyHunk \/ ApplyReturn

SpecApply == InitApply /\ [][NextApply]_vars

----------------------------------------------------------------------------
(* SpecValidate: validate_hunks called on records in any order.            *)

RangeRecords ==
    [old_line : 0..(MaxBase + 1),
     old_lines : {<<>>, <<La>>, <<La, Lb>>},
     new_lines : {<<Lx>>}]

InitValidate ==
    /\ pc = "validate_hunks"
    /\ hunks \in SeqsUpTo(RangeRecords, MaxRecords)
    /\ file_path = PathF
    /\ content = <<>>
    /\ index = <<>>
    /\ groups = <<>>
    /\ parsed = <<>>
    /\ sorted_hunks = <<>>
    /\ verdict = NoError
    /\ lines = <<>>
    /\ result = <<>>
    /\ offset = 0
    /\ k = 0
    /\ error = NoError
    /\ diff_text = <<>>
    /\ diff_hunks = <<>>
    /\ target = <<>>
    /\ updates_exists = FALSE
    /\ stderr = <<>>
    /\ exit_code = -1
    /\ sink_calls = <<>>
    /\ events = <<>>

\* validate_hunks(hunks) returns, or raises the ValueError kept in verdict
ValidateCall ==
    /\ pc = "validate_hunks"
    /\ verdict' = validate_hunks(hunks)
    /\ pc' = "validate_done"
    /\ UNCHANGED <<file_path, groups, content, parsed, hunks, sorted_hunks,
                   lines, result, offset, k, error, index, diff_text, diff_hunks, target,
                   updates_exists, stderr, exit_code, sink_calls, events>>

NextValidate == ValidateCall

SpecValidate == InitValidate /\ [][NextValidate]_vars

\* The closed base-file range [old_line, old_line + n - 1] of a record with
\* n >= 1 old lines, as a set of line numbers.
ClosedRange(h) == h.old_line..(h.old_line + Len(h.old_lines) - 1)

IsInsertion(h) == h.old_lines = <<>>

\* The positions i < j of hs whose records both hold old lines and whose
\* closed ranges intersect.
ConflictingPairs(hs) ==
    {p \in (1..Len(hs)) \X (1..Len(hs)) :
        /\ p[1] < p[2]
        /\ ~IsInsertion(hs[p[1]])
        /\ ~IsInsertion(hs[p[2]])
        /\ ClosedRange(hs[p[1]]) \cap ClosedRange(hs[p[2]]) # {}}

\* The first pair of a set of pairs in the order the nested loop visits them.
FirstPair(ps) ==
    CHOOSE p \in ps :
        \A q \in ps : p[1] < q[1] \/ (p[1] = q[1] /\ p[2] <= q[2])

\* C3: pure insertions never conflict: when the records with old lines have
\* pairwise disjoint ranges, validate_hunks returns normally, whatever
\* insertions the sequence holds and wherever they point.
C3_InsertionsNeverConflict ==
    (pc = "validate_done" /\ ConflictingPairs(hunks) = {}) => verdict = NoError

\* C4: on records that all hold old lines, validate_hunks raises exactly when
\* two of them have intersecting closed ranges, and the error names the
\* old_line of both records of the first such pair.
C4_ConflictDetection ==
    (pc = "validate_done" /\ \A i \in 1..Len(hunks) : ~IsInsertion(hunks[i])) =>
        IF ConflictingPairs(hunks) = {}
        THEN verdict = NoError
        ELSE LET p == FirstPair(ConflictingPairs(hunks))
             IN  verdict = [kind |-> "overlap",
                            a |-> hunks[p[1]].old_line,
                            b |-> hunks[p[2]].old_line]

\* A run of C4: three replacements, the conflict between the first and the
\* last of them, as with ranges [1,2] and [2,3].
C4_Witness ==
    /\ pc = "validate_done"
    /\ Len(hunks) = 3
    /\ \A i \in 1..3 : ~IsInsertion(hunks[i])
    /\ ConflictingPairs(hunks) = {<<1, 3>>}
    /\ hunks[1].old_line # hunks[3].old_line
    /\ verdict.kind = "overlap"

\* The sequence hs rearranged by the permutation f of its positions.
Permuted(hs, f) == [i \in 1..Len(hs) |-> hs[f[i]]]

\* C5: validate_hunks raises on a permutation of a sequence of records
\* (replacements, deletions and insertions mixed) exactly when it raises on
\* the sequence itself.
C5_OrderIndependent ==
    pc = "validate_done" =>
        \A f \in Permutations(1..Len(hunks)) :
            (validate_hunks(Permuted(hunks, f)) = NoError) <=> (verdict = NoError)

\* A run of C5: an insertion and two replacements, rejected.
C5_Witness ==
    /\ pc = "validate_done"
    /\ Len(hunks) = 3
    /\ \E i \in 1..3 : IsInsertion(hunks[i])
    /\ \E i \in 1..3 : ~IsInsertion(hunks[i])
    /\ verdict # NoError

----------------------------------------------------------------------------
(* Replay: claims about apply_hunks under SpecApply.                       *)

Delta(h) == Len(h.new_lines) - Len(h.old_lines)

\* The sum of Delta over the records of hs at the positions in S.
RECURSIVE SumDelta(_, _)
SumDelta(hs, S) ==
    IF S = {} THEN 0
    ELSE LET i == CHOOSE i \in S : TRUE
         IN  Delta(hs[i]) + SumDelta(hs, S \ {i})

\* Base line j lies in the range of a record that holds old lines.
Touched(hs, j) ==
    \E i \in 1..Len(hs) : ~IsInsertion(hs[i]) /\ j \in ClosedRange(hs[i])

\* C6: after a replay that returns, every base line j that lies in no
\* record's range is in the result at position j plus the deltas of the
\* records with old_line <= j.
C6_UntouchedSurvive ==
    pc = "applied" =>
        \A j \in 1..Len(lines) :
            ~Touched(sorted_hunks, j) =>
                LET at == j + SumDelta(sorted_hunks,
                              {i \in 1..Len(sorted_hunks) : sorted_hunks[i].old_line <= j})
                IN  at \in 1..Len(result) /\ result[at] = lines[j]

\* C7: while apply_hunks runs and when it returns, the offset is the sum of
\* the deltas of the records processed so far and equals the length of the
\* current result minus the length of the base; the returned list has the
\* length of the base plus the deltas of all records.
C7_OffsetBookkeeping ==
    /\ pc \in {"apply_loop", "applied"} =>
          /\ offset = SumDelta(sorted_hunks, 1..k)
          /\ offset = Len(result) - Len(lines)
    /\ pc = "applied" =>
          Len(result) = Len(lines) + SumDelta(sorted_hunks, 1..Len(sorted_hunks))

\* A run of C7: a deletion of two lines and an insertion of one replayed on
\* a base of three lines.
C7_Witness ==
    /\ pc = "applied"
    /\ Len(lines) = 3
    /\ Len(sorted_hunks) = 2
    /\ sorted_hunks[1].old_line = 1
    /\ Delta(sorted_hunks[1]) = -2
    /\ IsInsertion(sorted_hunks[2])
    /\ Delta(sorted_hunks[2]) = 1
    /\ offset = -1

\* The lines of res at 1-based positions p .. p + Len(old) - 1 exist and
\* equal old, line by line.
OldLinesFound(res, p, old) ==
    /\ p >= 1
    /\ p + Len(old) - 1 <= Len(res)
    /\ SubSeq(res, p, p + Len(old) - 1) = old

\* One iteration on a record with old lines: the replacement is made when
\* the old lines are found at old_line + offset, and otherwise the
\* 'old lines not found' error is raised with the result as it was.
C8_Iteration ==
    (pc = "apply_loop" /\ k < Len(sorted_hunks)
        /\ ~IsInsertion(sorted_hunks[k + 1])) =>
        LET h == sorted_hunks[k + 1]
            p == h.old_line + offset
        IN  IF OldLinesFound(result, p, h.old_lines)
            THEN /\ pc' = "apply_loop"
                 /\ k' = k + 1
                 /\ result' = SubSeq(result, 1, p - 1) \o h.new_lines
                                \o SubSeq(result, p + Len(h.old_lines), Len(result))
            ELSE /\ pc' = "raised"
                 /\ error'.kind = "old lines not found"
                 /\ k' = k
                 /\ result' = result

\* Once the error is raised no later record is processed and apply_hunks
\* does not return.
C8_Halted ==
    (pc = "raised" /\ error.kind = "old lines not found") =>
        /\ pc' \notin {"apply_loop", "applied"}
        /\ k' = k
        /\ result' = result

\* C8: stale detection in apply_hunks, on every iteration of every replay.
C8_StaleDetection == [][C8_Iteration /\ C8_Halted]_vars

\* A run of C8: the second record is stale after the first moved the offset,
\* its range running past the end of the result.
C8_Witness ==
    /\ pc = "raised"
    /\ Len(lines) = 3
    /\ sorted_hunks[1].old_line >= 1
    /\ error.kind = "old lines not found"
    /\ k = 1
    /\ offset # 0
    /\ error.at + Len(error.expected) - 1 > Len(result)

----------------------------------------------------------------------------
(* SpecCmd: whole runs of cmd_apply on an updates file and an index.       *)

\* Updates files: what format_updates_file writes for the records a user
\* may have left or edited in, the header-only document among them.
DocumentRecords ==
    [old_line : 0..2, old_lines : {<<>>, <<La>>, <<La, Lb>>}, new_lines : NewChoices]

\* Updates files without any record: the empty file and a file of stray
\* markers (the header-only document is among Documents already).
RecordlessDocuments == {<<>>, AT_NEW \o <<LF>> \o AT_END \o <<LF>>}

Documents ==
    {format_updates_file(PathF, hs) : hs \in SeqsUpTo(DocumentRecords, MaxHunks)}
        \cup RecordlessDocuments

\* What git show :<path> finds: a base file, or nothing.
IndexStates == {Join(b) : b \in Bases} \cup {Missing}

InitCmd ==
    /\ pc = "cmd_apply"
    /\ content \in Documents
    /\ index \in IndexStates
    /\ file_path = <<>>
    /\ hunks = <<>>
    /\ groups = <<>>
    /\ parsed = <<>>
    /\ sorted_hunks = <<>>
    /\ verdict = NoError
    /\ lines = <<>>
    /\ result = <<>>
    /\ offset = 0
    /\ k = 0
    /\ error = NoError
    /\ diff_text = <<>>
    /\ diff_hunks = <<>>
    /\ target = <<>>
    /\ updates_exists = TRUE
    /\ stderr = <<>>
    /\ exit_code = -1
    /\ sink_calls = <<>>
    /\ events = <<>>

NextCmd ==
    \/ CmdRead
    \/ Sort
    \/ Validate
    \/ ShowIndex
    \/ ApplyEnter
    \/ ApplyHunk
    \/ ApplyReturn
    \/ CmdExcept
    \/ CmdStage

SpecCmd == InitCmd /\ [][NextCmd]_vars

SinkSucceeded == sink_calls # <<>> /\ sink_calls[Len(sink_calls)].success

SinkRejected == sink_calls # <<>> /\ ~sink_calls[Len(sink_calls)].success

\* The run ended in a range conflict, a missing base, stale content or a
\* rejected patch.
RunFailed == pc = "exited" /\ (error # NoError \/ SinkRejected)

\* The run ended with zero records in the document or with the sink's success.
RunSucceeded == pc = "exited" /\ (hunks = <<>> \/ SinkSucceeded)

\* The updates file is deleted exactly when the run ends successfully, and a
\* failed run leaves the file in place, writes a diagnostic and exits 1.
C9_State ==
    /\ ~updates_exists <=> RunSucceeded
    /\ RunSucceeded => exit_code = 0
    /\ RunFailed => updates_exists /\ stderr # <<>> /\ exit_code = 1
    /\ pc = "exited" => RunSucceeded \/ RunFailed

\* C9: the edit-format document is consumed only on success, in every run
\* of cmd_apply, and no step of a run changes its content.
C9_ConsumedOnlyOnSuccess == [](C9_State) /\ [][content' = content]_vars

\* A run of C9: the second record is stale, the file is kept.
C9_Witness ==
    /\ RunFailed
    /\ Len(lines) = 3
    /\ ~IsInsertion(sorted_hunks[1])
    /\ error.kind = "old lines not found"
    /\ k = 1
    /\ updates_exists
    /\ exit_code = 1

\* The position of the first occurrence of event e in events, 0 when absent.
EventAt(e) ==
    IF \E i \in 1..Len(events) : events[i] = e
    THEN CHOOSE i \in 1..Len(events) :
            events[i] = e /\ \A j \in 1..(i - 1) : events[j] # e
    ELSE 0

\* C10: the stage-apply sink is invoked at most once in a run of cmd_apply,
\* and only after validate_hunks returned, the base was read and apply_hunks
\* returned, in that order; a run with an error never invokes it.
C10_NoIndexWriteOnFailure ==
    /\ Len(sink_calls) <= 1
    /\ Len(sink_calls) = Len(SelectSeq(events, LAMBDA e : e = "sink"))
    /\ sink_calls # <<>> =>
          /\ 0 < EventAt("validated")
          /\ EventAt("validated") < EventAt("index_read")
          /\ EventAt("index_read") < EventAt("replayed")
          /\ EventAt("replayed") < EventAt("sink")
          /\ error = NoError
          /\ validate_hunks(sorted_hunks) = NoError
          /\ index # Missing
          /\ k = Len(sorted_hunks)
    /\ error # NoError => sink_calls = <<>>

\* A run of C10: two records replayed and the patch handed to the sink.
C10_Witness ==
    /\ pc = "exited"
    /\ Len(lines) = 3
    /\ ~IsInsertion(sorted_hunks[1])
    /\ Len(sink_calls) = 1
    /\ Len(sorted_hunks) = 2
    /\ sink_calls[1].new_lines # sink_calls[1].old_lines

\* Some two records of the document conflict by the test of validate_hunks.
SomePairConflicts ==
    \E i, j \in 1..Len(hunks) : i # j /\ RangesOverlap(hunks[i], hunks[j])

\* The base content has been read or a record has been replayed.
ReplayBegun ==
    \/ pc \in {"apply_hunks", "apply_loop", "applied"}
    \/ EventAt("index_read") # 0
    \/ EventAt("replayed") # 0
    \/ lines # <<>>
    \/ result # <<>>
    \/ k > 0

\* C11: validation precedes replay: in every run of cmd_apply the base is
\* read and records are replayed only after validate_hunks has checked all
\* pairs and returned, and when any two records of the document conflict
\* the base is never read and no record is replayed.
C11_ValidationPrecedesReplay ==
    /\ ReplayBegun =>
          /\ 0 < EventAt("validated")
          /\ EventAt("index_read") # 0 => EventAt("validated") < EventAt("index_read")
          /\ ~SomePairConflicts
    /\ (pc \notin {"cmd_apply", "sort"} /\ SomePairConflicts) =>
          /\ ~ReplayBegun
          /\ pc \in {"validate", "raised", "exited"}
          /\ sink_calls = <<>>

\* A run of C11: the second and third line are claimed twice, the first
\* record alone would have been replayable on the base, nothing is replayed.
C11_Witness ==
    /\ pc = "exited"
    /\ error.kind = "overlap"
    /\ Len(sorted_hunks) = 2
    /\ index = Join(BaseOfLength(3))
    /\ sorted_hunks[1].old_line = 1
    /\ sorted_hunks[1].old_lines = <<La, Lb>>
    /\ sorted_hunks[2].old_line = 2
    /\ ~IsInsertion(sorted_hunks[2])
    /\ k = 0
    /\ result = <<>>

\* C16: a document that parses to zero records is a successful no-op: once
\* cmd_apply has read it the run is over with exit status 0, the document is
\* deleted, no base content was read, nothing was replayed, the sink was
\* never invoked and nothing was written to standard error.
C16_ZeroRecordNoOp ==
    (pc # "cmd_apply" /\ parse_updates_file(content)[2] = <<>>) =>
        /\ pc = "exited"
        /\ exit_code = 0
        /\ ~updates_exists
        /\ events = <<"parsed">>
        /\ lines = <<>>
        /\ result = <<>>
        /\ k = 0
        /\ sink_calls = <<>>
        /\ stderr = <<>>
        /\ error = NoError

\* A run of C16: the header-only document, with a base in the index.
C16_Witness ==
    /\ pc = "exited"
    /\ content = format_updates_file(PathF, <<>>)
    /\ file_path = PathF
    /\ hunks = <<>>
    /\ index = Join(BaseOfLength(2))
    /\ ~updates_exists

----------------------------------------------------------------------------
(* SpecCodec: format_updates_file, then parse_updates_file on its output.  *)

AtNewLine == AT_NEW \o <<LF>>
AtEndLine == AT_END \o <<LF>>

\* The line b without a terminator, as the last line of a file may be.
LbNoEol == <<"b">>

\* The old_lines or new_lines of a ChangeGroup: ordinary lines, a line whose
\* text is a marker of the format, a final line without terminator.
SideChoices == {<<>>, <<La>>, <<La, Lb>>, <<AtNewLine>>, <<AtEndLine>>, <<La, LbNoEol>>}

CodecGroups == [old_line : {0, 12}, old_lines : SideChoices, new_lines : SideChoices]

PathChoices == {PathF, <<"d", "/", "a", SP, "b">>}

InitCodec ==
    /\ pc = "format_updates_file"
    /\ file_path \in PathChoices
    /\ groups \in SeqsUpTo(CodecGroups, MaxGroups)
    /\ content = <<>>
    /\ parsed = <<>>
    /\ hunks = <<>>
    /\ index = <<>>
    /\ sorted_hunks = <<>>
    /\ verdict = NoError
    /\ lines = <<>>
    /\ result = <<>>
    /\ offset = 0
    /\ k = 0
    /\ error = NoError
    /\ diff_text = <<>>
    /\ diff_hunks = <<>>
    /\ target = <<>>
    /\ updates_exists = FALSE
    /\ stderr = <<>>
    /\ exit_code = -1
    /\ sink_calls = <<>>
    /\ events = <<>>

FormatCall ==
    /\ pc = "format_updates_file"
    /\ content' = format_updates_file(file_path, groups)
    /\ pc' = "parse_updates_file"
    /\ UNCHANGED <<file_path, groups, parsed, hunks, sorted_hunks, verdict, lines,
                   result, offset, k, error, index, diff_text, diff_hunks, target,
                   updates_exists, stderr, exit_code, sink_calls, events>>

ParseCall ==
    /\ pc = "parse_updates_file"
    /\ parsed' = parse_updates_file(content)
    /\ pc' = "parse_done"
    /\ UNCHANGED <<file_path, groups, content, hunks, sorted_hunks, verdict, lines,
                   result, offset, k, error, index, diff_text, diff_hunks, target,
                   updates_exists, stderr, exit_code, sink_calls, events>>

NextCodec == FormatCall \/ ParseCall

SpecCodec == InitCodec /\ [][NextCodec]_vars

\* C1: parse_updates_file(format_updates_file(path, groups)) gives back the
\* path and the groups: as many records, in the same order, with the same
\* old_line, old_lines and new_lines.
C1_RoundTrip ==
    pc = "parse_done" => parsed = <<file_path, groups>>

----------------------------------------------------------------------------
(* SpecPipeline: cmd_updates on the diff of a working tree against the     *)
(* index, then cmd_apply on the document it wrote, left unedited.          *)

NO_NEWLINE ==
    <<"\\", SP, "N", "o", SP, "n", "e", "w", "l", "i", "n", "e", SP, "a", "t", SP,
      "e", "n", "d", SP, "o", "f", SP, "f", "i", "l", "e", LF>>

\* The lines of a hunk, each a marker and a text: context, removed, added.
ScriptEntries == [op : {SP, "-", "+"}, text : {<<"a">>, <<"b">>}]

\* Removed lines stand before added lines in every run of changes.
WellFormedScript(sc) ==
    \A i \in 1..(Len(sc) - 1) : ~(sc[i].op = "+" /\ sc[i + 1].op = "-")

Scripts == {sc \in SeqsUpTo(ScriptEntries, MaxScript) : WellFormedScript(sc)}

\* The entries of sc that belong to the side: "-" the base, "+" the target.
OnSide(sc, side) == SelectSeq(sc, LAMBDA e : e.op \in {SP, side})

\* The lines of one side of the script, the last without terminator when nl
\* is FALSE.
SideLines(sc, side, nl) ==
    LET es == OnSide(sc, side)
    IN  [i \in 1..Len(es) |->
            IF i = Len(es) /\ ~nl THEN es[i].text ELSE es[i].text \o <<LF>>]

\* The position in sc of the last entry of the side, 0 when it has none.
LastOnSide(sc, side) ==
    IF \E i \in 1..Len(sc) : sc[i].op \in {SP, side}
    THEN CHOOSE i \in 1..Len(sc) :
            /\ sc[i].op \in {SP, side}
            /\ \A j \in (i + 1)..Len(sc) : sc[j].op \notin {SP, side}
    ELSE 0

\* The start,count of a hunk header as git prints it.
HunkRange(count) ==
    IF count = 0 THEN <<"0", ",", "0">>
    ELSE IF count = 1 THEN <<"1">>
    ELSE <<"1", ",">> \o IntToStr(count)

\* What git diff prints for the script as one hunk over the whole file:
\* nothing when no line changes, the no-newline marker behind the last line
\* of a side that lacks the terminator.
GitDiff(sc, base_nl, target_nl) ==
    IF \A i \in 1..Len(sc) : sc[i].op = SP THEN <<>>
    ELSE LET body == [i \in 1..Len(sc) |->
                        <<sc[i].op>> \o sc[i].text \o <<LF>>
                        \o (IF \/ (~base_nl /\ i = LastOnSide(sc, "-"))
                               \/ (~target_nl /\ i = LastOnSide(sc, "+"))
                            THEN NO_NEWLINE ELSE <<>>)]
         IN  DIFF_GIT \o <<SP, "a", "/", "f", SP, "b", "/", "f", LF>>
             \o INDEX_SP \o <<"1", ".", ".", "2", LF>>
             \o MINUS3_SP \o <<"a", "/", "f", LF>>
             \o PLUS3_SP \o <<"b", "/", "f", LF>>
             \o <<"@", "@", SP, "-">> \o HunkRange(Len(OnSide(sc, "-")))
             \o <<SP, "+">> \o HunkRange(Len(OnSide(sc, "+")))
             \o <<SP, "@", "@", LF>>
             \o Join(body)

\* A side may lack its final terminator only when it has a line, and a final
\* context line is the same line on both sides.
EndingsAllowed(sc, base_nl, target_nl) ==
    /\ OnSide(sc, "-") = <<>> => base_nl
    /\ OnSide(sc, "+") = <<>> => target_nl
    /\ (sc # <<>> /\ sc[Len(sc)].op = SP) => base_nl = target_nl

InitPipeline ==
    /\ pc = "cmd_updates"
    /\ file_path = PathF
    /\ \E sc \in Scripts : \E base_nl, target_nl \in BOOLEAN :
          /\ EndingsAllowed(sc, base_nl, target_nl)
          /\ index = Join(SideLines(sc, "-", base_nl))
          /\ target = SideLines(sc, "+", target_nl)
          /\ diff_text = GitDiff(sc, base_nl, target_nl)
          /\ diff_hunks = <<>>
    /\ groups = <<>>
    /\ content = <<>>
    /\ parsed = <<>>
    /\ hunks = <<>>
    /\ sorted_hunks = <<>>
    /\ verdict = NoError
    /\ lines = <<>>
    /\ result = <<>>
    /\ offset = 0
    /\ k = 0
    /\ error = NoError
    /\ updates_exists = FALSE
    /\ stderr = <<>>
    /\ exit_code = -1
    /\ sink_calls = <<>>
    /\ events = <<>>

\* cmd_updates lines 509-520, its output kept as the updates file on which
\* cmd_apply is then run
CmdUpdates ==
    /\ pc = "cmd_updates"
    /\ LET parsed_hunks == parse_unified_diff(diff_text)
           all_groups == AllGroups(parsed_hunks)
       IN  /\ diff_hunks' = parsed_hunks
           /\ groups' = all_groups
           /\ content' = format_updates_file(file_path, all_groups)
    /\ updates_exists' = TRUE
    /\ pc' = "cmd_apply"
    /\ UNCHANGED <<file_path, parsed, hunks, sorted_hunks, verdict, lines, result,
                   offset, k, error, index, diff_text, target, stderr, exit_code,
                   sink_calls, events>>

NextPipeline ==
    \/ CmdUpdates
    \/ CmdRead
    \/ Sort
    \/ Validate
    \/ ShowIndex
    \/ ApplyEnter
    \/ ApplyHunk
    \/ ApplyReturn
    \/ CmdExcept
    \/ CmdStage

SpecPipeline == InitPipeline /\ [][NextPipeline]_vars

\* C2: the unedited document replayed on the base raises no error and gives
\* exactly the target line sequence (the base itself when nothing changed).
C2_EndToEnd ==
    /\ pc # "raised"
    /\ pc = "applied" => result = target
    /\ (pc = "exited" /\ hunks = <<>>) => SplitLines(index) = target

----------------------------------------------------------------------------
(* SpecAnchor: runs of cmd_apply on documents of two or more records whose *)
(* new lines tell the records apart.                                       *)

AnchorRecords ==
    [old_line : 0..(MaxBase + 1), old_lines : {<<>>, <<La>>},
     new_lines : {<<Lx>>, <<Ly>>}]

AnchorDocuments ==
    {format_updates_file(PathF, hs) :
        hs \in UNION {[1..m -> AnchorRecords] : m \in 2..MaxHunks}}

InitAnchor ==
    /\ pc = "cmd_apply"
    /\ content \in AnchorDocuments
    /\ index \in {Join(b) : b \in Bases}
    /\ file_path = <<>>
    /\ hunks = <<>>
    /\ groups = <<>>
    /\ parsed = <<>>
    /\ sorted_hunks = <<>>
    /\ verdict = NoError
    /\ lines = <<>>
    /\ result = <<>>
    /\ offset = 0
    /\ k = 0
    /\ error = NoError
    /\ diff_text = <<>>
    /\ diff_hunks = <<>>
    /\ target = <<>>
    /\ updates_exists = TRUE
    /\ stderr = <<>>
    /\ exit_code = -1
    /\ sink_calls = <<>>
    /\ events = <<>>

SpecAnchor == InitAnchor /\ [][NextCmd]_vars

\* The pure insertions of the document anchored at p, in document order.
InsertionsAt(p) ==
    SelectSeq(hunks, LAMBDA h : IsInsertion(h) /\ h.old_line = p)

\* Their new lines, block after block.
BlocksAt(p) ==
    LET ins == InsertionsAt(p)
    IN  Join([i \in 1..Len(ins) |-> ins[i].new_lines])

\* C12: same-anchor insertions keep document order: when two or more pure
\* insertions of the document share old_line p, the replayed result holds
\* their new lines as adjacent blocks in document order, and when base line
\* p is in no record's range the blocks end right before it.
C12_SameAnchorOrder ==
    pc = "applied" =>
        \A p \in 0..(MaxBase + 1) :
            Len(InsertionsAt(p)) >= 2 =>
                \E q \in 1..(Len(result) + 1) :
                    LET n == Len(BlocksAt(p))
                    IN  /\ q + n - 1 <= Len(result)
                        /\ SubSeq(result, q, q + n - 1) = BlocksAt(p)
                        /\ (p \in 1..Len(lines) /\ ~Touched(sorted_hunks, p)) =>
                              /\ q + n <= Len(result)
                              /\ result[q + n] = lines[p]
                              /\ q + n = p + SumDelta(sorted_hunks,
                                    {i \in 1..Len(sorted_hunks) :
                                        sorted_hunks[i].old_line <= p})

----------------------------------------------------------------------------
(* SpecSplit: split_into_change_groups called on one Hunk.                 *)

MaxHunkLines == 5

ContextA == <<SP>> \o La
RemovedA == <<"-">> \o La
RemovedB == <<"-">> \o Lb
AddedX == <<"+">> \o Lx
AddedY == <<"+">> \o Ly

\* Lines a Hunk holds: context, removed, added, and the marker that follows
\* a line without line terminator.
HunkLineChoices == {ContextA, RemovedA, RemovedB, AddedX, AddedY, NO_NEWLINE}

IsContext(line) == StartsWith(line, <<SP>>)
IsRemoved(line) == StartsWith(line, <<"-">>)
IsAdded(line) == StartsWith(line, <<"+">>)
IsMarker(line) == StartsWith(line, <<"\\">>)

\* The Hunk with these lines at old_start s, its counts as the header of the
\* hunk gives them.
HunkOf(s, ls) ==
    [old_start |-> s,
     old_count |-> Len(SelectSeq(ls, IsContext)) + Len(SelectSeq(ls, IsRemoved)),
     new_start |-> s,
     new_count |-> Len(SelectSeq(ls, IsContext)) + Len(SelectSeq(ls, IsAdded)),
     lines |-> ls]

SplitHunks ==
    {HunkOf(s, ls) : s \in 1..2, ls \in SeqsUpTo(HunkLineChoices, MaxHunkLines)}

InitSplit ==
    /\ pc = "split_into_change_groups"
    /\ diff_hunks \in {<<h>> : h \in SplitHunks}
    /\ groups = <<>>
    /\ file_path = PathF
    /\ content = <<>>
    /\ parsed = <<>>
    /\ hunks = <<>>
    /\ index = <<>>
    /\ sorted_hunks = <<>>
    /\ verdict = NoError
    /\ lines = <<>>
    /\ result = <<>>
    /\ offset = 0
    /\ k = 0
    /\ error = NoError
    /\ diff_text = <<>>
    /\ target = <<>>
    /\ updates_exists = FALSE
    /\ stderr = <<>>
    /\ exit_code = -1
    /\ sink_calls = <<>>
    /\ events = <<>>

SplitCall ==
    /\ pc = "split_into_change_groups"
    /\ groups' = split_into_change_groups(diff_hunks[1])
    /\ pc' = "split_done"
    /\ UNCHANGED <<file_path, content, parsed, hunks, sorted_hunks, verdict, lines,
                   result, offset, k, error, index, diff_text, diff_hunks, target,
                   updates_exists, stderr, exit_code, sink_calls, events>>

NextSplit == SplitCall

SpecSplit == InitSplit /\ [][NextSplit]_vars

\* The lines of ls with the leading marker character stripped.
Stripped(ls) == [i \in 1..Len(ls) |-> Tail(ls[i])]

\* ls is kc context lines, then m removed lines, then n added lines, then
\* one or more context lines.
IsSingleRun(ls, kc, m, n) ==
    /\ m + n >= 1
    /\ kc + m + n < Len(ls)
    /\ \A i \in 1..Len(ls) :
          IF i <= kc THEN IsContext(ls[i])
          ELSE IF i <= kc + m THEN IsRemoved(ls[i])
          ELSE IF i <= kc + m + n THEN IsAdded(ls[i])
          ELSE IsContext(ls[i])

\* C13: grouping correctness: a hunk at old_start s of kc context lines, m
\* removed lines, n added lines and then context gives exactly one group,
\* with old_line = s + kc and the m removed and n added lines, stripped.
C13_GroupingCorrectness ==
    pc = "split_done" =>
        LET h == diff_hunks[1]
        IN  \A kc, m, n \in 0..Len(h.lines) :
                IsSingleRun(h.lines, kc, m, n) =>
                    groups = <<[old_line |-> h.old_start + kc,
                                old_lines |-> Stripped(SubSeq(h.lines, kc + 1, kc + m)),
                                new_lines |-> Stripped(SubSeq(h.lines, kc + m + 1,
                                                              kc + m + n))]>>

\* The positions of the removed and added lines of ls.
ChangeIdx(ls) == {i \in 1..Len(ls) : IsRemoved(ls[i]) \/ IsAdded(ls[i])}

\* A context line lies between positions i and j of ls.
ContextBetween(ls, i, j) == \E c \in (i + 1)..(j - 1) : IsContext(ls[c])

\* The first positions of the maximal runs of removed/added lines that no
\* context line interrupts.
RunStarts(ls) ==
    {i \in ChangeIdx(ls) :
        \A j \in ChangeIdx(ls) : j < i => ContextBetween(ls, j, i)}

\* The first position of the g-th run.
NthStart(ls, g) ==
    CHOOSE r \in RunStarts(ls) : Cardinality({q \in RunStarts(ls) : q <= r}) = g

\* The positions of the run that starts at r.
RunMembers(ls, r) ==
    {i \in ChangeIdx(ls) : i >= r /\ ~ContextBetween(ls, r, i)}

\* The base-file line number of the line at position i of the hunk h.
BaseLineOf(h, i) ==
    h.old_start + Cardinality({j \in 1..(i - 1) :
                                  IsContext(h.lines[j]) \/ IsRemoved(h.lines[j])})

\* C14: meaning of old_line: a group without old lines has old_line 0, and
\* a group with old lines has the base-file line number of its first removed
\* line, whatever the interleaving of the hunk's lines.
C14_OldLineMeaning ==
    pc = "split_done" =>
        LET h == diff_hunks[1]
        IN  \A g \in 1..Len(groups) :
                IF groups[g].old_lines = <<>>
                THEN groups[g].old_line = 0
                ELSE /\ g <= Cardinality(RunStarts(h.lines))
                     /\ LET removed == {i \in RunMembers(h.lines, NthStart(h.lines, g)) :
                                           IsRemoved(h.lines[i])}
                        IN  /\ removed # {}
                            /\ groups[g].old_line =
                                  BaseLineOf(h, CHOOSE i \in removed :
                                                   \A j \in removed : i <= j)

\* The old_lines (side "-") or new_lines (side "+") of gs, group after group.
SideOfGroups(gs, side) ==
    Join([g \in 1..Len(gs) |->
            IF side = "-" THEN gs[g].old_lines ELSE gs[g].new_lines])

\* C15: the groups cover the hunk: their old_lines, in order, are the
\* removed lines of the hunk and their new_lines its added lines, marker
\* stripped; no group is empty; and there is one group for every maximal
\* run of removed/added lines that no context line interrupts.
C15_GroupsCoverHunk ==
    pc = "split_done" =>
        LET ls == diff_hunks[1].lines
        IN  /\ SideOfGroups(groups, "-") = Stripped(SelectSeq(ls, IsRemoved))
            /\ SideOfGroups(groups, "+") = Stripped(SelectSeq(ls, IsAdded))
            /\ \A g \in 1..Len(groups) :
                  groups[g].old_lines # <<>> \/ groups[g].new_lines # <<>>
            /\ Len(groups) = Cardinality(RunStarts(ls))

\* A hunk of C15: two runs, the first with the marker between its removed
\* and its added line, and two groups.
C15_Witness ==
    /\ pc = "split_done"
    /\ diff_hunks[1].lines = <<RemovedA, NO_NEWLINE, AddedX, ContextA, AddedY>>
    /\ Len(groups) = 2

----------------------------------------------------------------------------
(* SpecParse: parse_unified_diff called on a diff text.                    *)

MaxDiffLines == 4

DiffGitLine ==
    DIFF_GIT \o <<SP, "a", "/", "f", SP, "b", "/", "f", LF>>
MinusFileLine == MINUS3_SP \o <<"a", "/", "f", LF>>

\* "@@ -1 +1,2 @@": both starts, the old count absent
HeaderShort == <<"@", "@", SP, "-", "1", SP, "+", "1", ",", "2", SP, "@", "@", LF>>

\* "@@ -12,0 +13 @@ fn": a count of 0, the new count absent, text after it
HeaderLong ==
    <<"@", "@", SP, "-", "1", "2", ",", "0", SP, "+", "1", "3", SP, "@", "@",
      SP, "f", "n", LF>>

\* "@@ -1,2 +3,4": the closing "@@" is missing
HeaderUnclosed == <<"@", "@", SP, "-", "1", ",", "2", SP, "+", "3", ",", "4", LF>>

\* "@@ -1 +x @@": no number after "+"
HeaderNoNumber == <<"@", "@", SP, "-", "1", SP, "+", "x", SP, "@", "@", LF>>

\* The lines that match hunk_pattern, with the numbers they carry.
HeaderNumbers ==
    [l \in {HeaderShort, HeaderLong} |->
        IF l = HeaderShort
        THEN [old_start |-> 1, old_count |-> 1, new_start |-> 1, new_count |-> 2]
        ELSE [old_start |-> 12, old_count |-> 0, new_start |-> 13, new_count |-> 1]]

DiffLineChoices ==
    {DiffGitLine, MinusFileLine, HeaderShort, HeaderLong, HeaderUnclosed,
     HeaderNoNumber, ContextA, RemovedA, AddedX}

DiffTexts == {Join(ls) : ls \in SeqsUpTo(DiffLineChoices, MaxDiffLines)}

InitParse ==
    /\ pc = "parse_unified_diff"
    /\ diff_text \in DiffTexts
    /\ diff_hunks = <<>>
    /\ groups = <<>>
    /\ file_path = PathF
    /\ content = <<>>
    /\ parsed = <<>>
    /\ hunks = <<>>
    /\ index = <<>>
    /\ sorted_hunks = <<>>
    /\ verdict = NoError
    /\ lines = <<>>
    /\ result = <<>>
    /\ offset = 0
    /\ k = 0
    /\ error = NoError
    /\ target = <<>>
    /\ updates_exists = FALSE
    /\ stderr = <<>>
    /\ exit_code = -1
    /\ sink_calls = <<>>
    /\ events = <<>>

ParseDiffCall ==
    /\ pc = "parse_unified_diff"
    /\ diff_hunks' = parse_unified_diff(diff_text)
    /\ pc' = "parse_diff_done"
    /\ UNCHANGED <<file_path, groups, content, parsed, hunks, sorted_hunks, verdict,
                   lines, result, offset, k, error, index, diff_text, target,
                   updates_exists, stderr, exit_code, sink_calls, events>>

NextParse == ParseDiffCall

SpecParse == InitParse /\ [][NextParse]_vars

\* The header lines of the text, in source order.
HeaderLinesOf(text) ==
    SelectSeq(SplitLines(text), LAMBDA l : l \in DOMAIN HeaderNumbers)

\* C17: parse_unified_diff returns one Hunk for every line that matches the
\* header pattern, in source order, with the four numbers of that header
\* and 1 for an absent count; file-header lines and malformed headers give
\* no Hunk, and the empty text gives no Hunk.
C17_DiffParserOutput ==
    pc = "parse_diff_done" =>
        LET hs == HeaderLinesOf(diff_text)
        IN  /\ Len(diff_hunks) = Len(hs)
            /\ \A i \in 1..Len(hs) :
                  /\ diff_hunks[i].old_start = HeaderNumbers[hs[i]].old_start
                  /\ diff_hunks[i].old_count = HeaderNumbers[hs[i]].old_count
                  /\ diff_hunks[i].new_start = HeaderNumbers[hs[i]].new_start
                  /\ diff_hunks[i].new_count = HeaderNumbers[hs[i]].new_count

\* A text of C17: a file-header line, a malformed header, and two headers
\* with an absent count each.
C17_Witness ==
    /\ pc = "parse_diff_done"
    /\ diff_text = Join(<<MinusFileLine, HeaderLong, HeaderNoNumber, HeaderShort>>)
    /\ Len(diff_hunks) = 2
    /\ diff_hunks[1].new_count = 1
    /\ diff_hunks[2].old_count = 1

----------------------------------------------------------------------------
(* The layout of the updates file, written out character by character.     *)

\* The decimal numerals of the old_line values of CodecGroups.
Numeral(n) == IF n = 0 THEN <<"0">> ELSE <<"1", "2">>

HeaderText(path) == <<"f", "i", "l", "e", ":", " ">> \o path \o <<"\n">>

GroupText(g) ==
    <<"\n", "@", "@", "o", "l", "d", " ">> \o Numeral(g.old_line) \o <<"\n">>
    \o Join(g.old_lines)
    \o <<"@", "@", "n", "e", "w", "\n">>
    \o Join(g.new_lines)
    \o <<"@", "@", "e", "n", "d", "\n">>

\* ChangeGroups for the layout: no lines, ordinary lines, a line without
\* terminator, lines with the text of a marker.
LayoutGroups ==
    [old_line : {0, 12},
     old_lines : {<<>>, <<La, LbNoEol>>, <<AtNewLine>>},
     new_lines : {<<>>, <<Lx>>, <<AtEndLine>>}]

InitLayout ==
    /\ pc = "format_updates_file"
    /\ file_path \in PathChoices
    /\ groups \in SeqsUpTo(LayoutGroups, MaxGroups)
    /\ content = <<>>
    /\ parsed = <<>>
    /\ hunks = <<>>
    /\ index = <<>>
    /\ sorted_hunks = <<>>
    /\ verdict = NoError
    /\ lines = <<>>
    /\ result = <<>>
    /\ offset = 0
    /\ k = 0
    /\ error = NoError
    /\ diff_text = <<>>
    /\ diff_hunks = <<>>
    /\ target = <<>>
    /\ updates_exists = FALSE
    /\ stderr = <<>>
    /\ exit_code = -1
    /\ sink_calls = <<>>
    /\ events = <<>>

SpecLayout == InitLayout /\ [][NextCodec]_vars

\* C18: serialization layout: format_updates_file(path, groups) is the line
\* "file: <path>", then for each group in input order a blank line, the line
\* "@@old <old_line>", the old_lines, the line "@@new", the new_lines and
\* the line "@@end"; without groups it is the header line and nothing else.
C18_SerializationLayout ==
    pc \in {"parse_updates_file", "parse_done"} =>
        /\ content = HeaderText(file_path)
                        \o Join([i \in 1..Len(groups) |-> GroupText(groups[i])])
        /\ groups = <<>> => content = HeaderText(file_path)

\* A document of C18: two groups, the first at old_line 12 with old and new
\* lines, under a path with a blank in it.
C18_Witness ==
    /\ pc = "parse_updates_file"
    /\ file_path # PathF
    /\ Len(groups) = 2
    /\ groups[1].old_line = 12
    /\ groups[1].old_lines # <<>>
    /\ groups[1].new_lines # <<>>
    /\ groups[2].old_line = 0

----------------------------------------------------------------------------
(* sort_hunks, as cmd_apply calls it on the records of the document.       *)

\* The one-to-one maps of the positions 1..n onto themselves.
Bijections(n) ==
    {f \in [1..n -> 1..n] : \A i, j \in 1..n : f[i] = f[j] => i = j}

\* out holds the records of inp, position f[i] of inp at position i, in
\* non-decreasing old_line order, records with equal old_line in the order
\* they have in inp.
IsStableSortBy(out, inp, f) ==
    /\ \A i \in 1..Len(out) : out[i] = inp[f[i]]
    /\ \A i, j \in 1..Len(out) :
          i < j =>
              /\ out[i].old_line <= out[j].old_line
              /\ out[i].old_line = out[j].old_line => f[i] < f[j]

C19_Sorted ==
    (pc \notin {"cmd_apply", "sort"}) =>
        /\ Len(sorted_hunks) = Len(hunks)
        /\ \E f \in Bijections(Len(hunks)) : IsStableSortBy(sorted_hunks, hunks, f)

\* C19: sort_hunks returns the records of its input, each intact, in
\* non-decreasing old_line order with equal old_line kept in input order,
\* and the call leaves the input list as it was.
C19_SortHunks == [](C19_Sorted) /\ [][pc = "sort" => hunks' = hunks]_vars

\* A call of C19: two records handed over in descending old_line order.
C19_Witness ==
    /\ pc = "validate"
    /\ Len(hunks) = 2
    /\ hunks[1].old_line > hunks[2].old_line
    /\ sorted_hunks = <<hunks[2], hunks[1]>>

----------------------------------------------------------------------------
(* The marker line in split_into_change_groups.                            *)

\* The hunk h without its marker lines.
WithoutMarkers(h) ==
    [h EXCEPT !.lines = SelectSeq(h.lines, LAMBDA l : ~IsMarker(l))]

\* The hunk h with a marker line put behind its first pos lines.
WithMarkerAt(h, pos) ==
    [h EXCEPT !.lines = SubSeq(h.lines, 1, pos) \o <<NO_NEWLINE>>
                          \o SubSeq(h.lines, pos + 1, Len(h.lines))]

\* C20: the no-newline marker is ignored by grouping: the groups of a hunk
\* are the groups of the hunk with its marker lines removed, and the groups
\* of the hunk with one more marker line at any position.
C20_MarkerIgnored ==
    pc = "split_done" =>
        LET h == diff_hunks[1]
        IN  /\ groups = split_into_change_groups(WithoutMarkers(h))
            /\ \A pos \in 0..Len(h.lines) :
                  split_into_change_groups(WithMarkerAt(h, pos)) = groups

\* A hunk of C20: a marker after the context line and one inside the run.
C20_Witness ==
    /\ pc = "split_done"
    /\ diff_hunks[1].old_start = 1
    /\ diff_hunks[1].lines = <<ContextA, NO_NEWLINE, RemovedB, NO_NEWLINE, AddedY>>
    /\ groups = <<[old_line |-> 2, old_lines |-> <<Lb>>, new_lines |-> <<Ly>>]>>

----------------------------------------------------------------------------
(* SpecBlocks: sort_hunks, validate_hunks and apply_hunks on records with  *)
(* old_line >= 1 whose new lines may be a block of two.                    *)

BlockRecords ==
    [old_line : 1..(MaxBase + 1), old_lines : {<<>>, <<La>>},
     new_lines : {<<>>, <<Lx>>, <<Lx, Ly>>}]

InitBlocks ==
    /\ pc = "sort"
    /\ file_path = PathF
    /\ hunks \in SeqsUpTo(BlockRecords, MaxHunks)
    /\ content = format_updates_file(PathF, hunks)
    /\ index \in {Join(b) : b \in Bases}
    /\ groups = <<>>
    /\ parsed = <<>>
    /\ sorted_hunks = <<>>
    /\ verdict = NoError
    /\ lines = <<>>
    /\ result = <<>>
    /\ offset = 0
    /\ k = 0
    /\ error = NoError
    /\ diff_text = <<>>
    /\ diff_hunks = <<>>
    /\ target = <<>>
    /\ updates_exists = TRUE
    /\ stderr = <<>>
    /\ exit_code = -1
    /\ sink_calls = <<>>
    /\ events = <<"parsed">>

SpecBlocks == InitBlocks /\ [][NextApply]_vars

\* q gives every record of hs a place in res where its new_lines stand as
\* one block, the blocks in the order of the records, none inside another.
BlocksInOrder(res, hs, q) ==
    /\ \A i \in 1..Len(hs) :
          /\ q[i] + Len(hs[i].new_lines) - 1 <= Len(res)
          /\ SubSeq(res, q[i], q[i] + Len(hs[i].new_lines) - 1) = hs[i].new_lines
    /\ \A i \in 1..(Len(hs) - 1) : q[i] + Len(hs[i].new_lines) <= q[i + 1]

\* C21: each record's replacement stays in one piece: after a replay that
\* returns, of sorted and validated records with old_line >= 1, the
\* new_lines of every record are one contiguous block of the result and the
\* blocks stand in the sorted record order.
C21_BlocksInOnePiece ==
    pc = "applied" =>
        \E q \in [1..Len(sorted_hunks) -> 1..(Len(result) + 1)] :
            BlocksInOrder(result, sorted_hunks, q)

----------------------------------------------------------------------------
(* SpecStray: cmd_apply on documents whose records stand after, before or  *)
(* without the "file:" header.                                             *)

HeaderLine == FILE_COLON \o <<SP>> \o PathF \o <<LF>>

\* The documents a user may leave behind: the records as format_updates_file
\* lays them out, with the header line in front of them, behind them, or
\* dropped.
StrayDocuments ==
    UNION {{HeaderLine \o Join(FormatParts(hs)),
            Join(FormatParts(hs)) \o HeaderLine,
            Join(FormatParts(hs))} :
                hs \in SeqsUpTo(DocumentRecords, MaxHunks) \ {<<>>}}

InitStray ==
    /\ pc = "cmd_apply"
    /\ content \in StrayDocuments
    /\ index \in IndexStates
    /\ file_path = <<>>
    /\ hunks = <<>>
    /\ groups = <<>>
    /\ parsed = <<>>
    /\ sorted_hunks = <<>>
    /\ verdict = NoError
    /\ lines = <<>>
    /\ result = <<>>
    /\ offset = 0
    /\ k = 0
    /\ error = NoError
    /\ diff_text = <<>>
    /\ diff_hunks = <<>>
    /\ target = <<>>
    /\ updates_exists = TRUE
    /\ stderr = <<>>
    /\ exit_code = -1
    /\ sink_calls = <<>>
    /\ events = <<>>

SpecStray == InitStray /\ [][NextCmd]_vars

\* The text holds a well-formed record: a line "@@old <n>", a later line
\* "@@new" and a still later line "@@end".
HoldsRecord(text) ==
    LET ls == SplitLines(text)
    IN  \E a \in 1..Len(ls) : \E b \in (a + 1)..Len(ls) : \E c \in (b + 1)..Len(ls) :
            /\ OldPatternMatches(RStripNL(ls[a]))
            /\ RStripNL(ls[b]) = AT_NEW
            /\ RStripNL(ls[c]) = AT_END

\* C22: when the document text holds at least one well-formed record,
\* wherever it stands relative to the "file:" header and also when the
\* header is missing, cmd_apply has deleted the document only after the
\* stage-apply sink was invoked and reported success.
C22_RecordsNeverDiscarded ==
    (HoldsRecord(content) /\ ~updates_exists) => SinkSucceeded
----------------------------------------------------------------------------
(* The arguments of apply_hunks after the call.                            *)

\* apply_hunks is running: entered and neither returned nor raised
InApplyHunks == pc \in {"apply_hunks", "apply_loop"}

\* C23: apply_hunks leaves its input untouched: over every step it takes,
\* the one that returns and the one that raises included, the line list and
\* the records it was given are what they were; so the old_lines that
\* cmd_apply hands to generate_patch are the base content as read from the
\* index.
C23_InputUntouched ==
    /\ [](\A c \in 1..Len(sink_calls) : sink_calls[c].old_lines = SplitLines(index))
    /\ [][InApplyHunks => (lines' = lines /\ sorted_hunks' = sorted_hunks)]_vars

\* apply_hunks has returned a list that differs from the base, and the
\* patch of the two went to the sink.
C23_Witness ==
    /\ pc = "exited"
    /\ sink_calls # <<>>
    /\ sink_calls[1].new_lines # sink_calls[1].old_lines
    /\ sink_calls[1].new_lines = result
----------------------------------------------------------------------------
(* SpecDiff: parse_unified_diff on what git diff writes for one file.      *)

MaxBodyLines == 2

IndexLine == INDEX_SP \o <<"1", ".", ".", "2", LF>>
PlusFileLine == PLUS3_SP \o <<"b", "/", "f", LF>>

\* The removed line whose content is "-- x" and the added line whose
\* content is "++ y".
RemovedDashes == <<"-", "-", "-", SP, "x", LF>>
AddedPluses == <<"+", "+", "+", SP, "y", LF>>

BodyLineChoices == {ContextA, RemovedA, AddedX, RemovedDashes, AddedPluses}

\* The bodies of the hunks of one diff.
DiffBodies ==
    SeqsUpTo(SeqsUpTo(BodyLineChoices, MaxBodyLines) \ {<<>>}, MaxHunks) \ {<<>>}

OldCountOf(body) == Len(SelectSeq(body, LAMBDA l : IsContext(l) \/ IsRemoved(l)))
NewCountOf(body) == Len(SelectSeq(body, LAMBDA l : IsContext(l) \/ IsAdded(l)))

\* "@@ -<s>,<oc> +<t>,<nc> @@" with the counts of the body
HunkHeaderOf(s, t, body) ==
    <<"@", "@", SP, "-">> \o IntToStr(s) \o <<",">> \o IntToStr(OldCountOf(body))
    \o <<SP, "+">> \o IntToStr(t) \o <<",">> \o IntToStr(NewCountOf(body))
    \o <<SP, "@", "@", LF>>

\* The hunks from body i on, the next one starting one unchanged line after
\* the lines of the one before.
RECURSIVE HunkLinesFrom(_, _, _, _)
HunkLinesFrom(bodies, i, s, t) ==
    IF i > Len(bodies) THEN <<>>
    ELSE <<HunkHeaderOf(s, t, bodies[i])>> \o bodies[i]
         \o HunkLinesFrom(bodies, i + 1, s + OldCountOf(bodies[i]) + 1,
                          t + NewCountOf(bodies[i]) + 1)

\* The lines of the diff of one file: the four file-header lines, then the
\* hunks.
DiffLinesOf(bodies) ==
    <<DiffGitLine, IndexLine, MinusFileLine, PlusFileLine>>
    \o HunkLinesFrom(bodies, 1, 1, 1)

InitDiff ==
    /\ pc = "parse_unified_diff"
    /\ diff_text \in {Join(DiffLinesOf(bodies)) : bodies \in DiffBodies}
    /\ diff_hunks = <<>>
    /\ groups = <<>>
    /\ file_path = PathF
    /\ content = <<>>
    /\ parsed = <<>>
    /\ hunks = <<>>
    /\ index = <<>>
    /\ sorted_hunks = <<>>
    /\ verdict = NoError
    /\ lines = <<>>
    /\ result = <<>>
    /\ offset = 0
    /\ k = 0
    /\ error = NoError
    /\ target = <<>>
    /\ updates_exists = FALSE
    /\ stderr = <<>>
    /\ exit_code = -1
    /\ sink_calls = <<>>
    /\ events = <<>>

SpecDiff == InitDiff /\ [][NextParse]_vars

\* C24: for every well-formed diff of one file, removed lines whose content
\* starts with "-- " and added lines whose content starts with "++ "
\* included, every Hunk that parse_unified_diff returns holds in its lines
\* exactly old_count context-or-removed lines and exactly new_count
\* context-or-added lines, in source order: the lines of the hunk's body.
C24_HunkLinesMatchCounts ==
    pc = "parse_diff_done" =>
        \A bodies \in DiffBodies :
            SplitLines(diff_text) = DiffLinesOf(bodies) =>
                /\ Len(diff_hunks) = Len(bodies)
                /\ \A i \in 1..Len(diff_hunks) :
                      /\ OldCountOf(diff_hunks[i].lines) = diff_hunks[i].old_count
                      /\ NewCountOf(diff_hunks[i].lines) = diff_hunks[i].new_count
                      /\ diff_hunks[i].lines = bodies[i]
====
